---------------------------- MODULE Spec2Model ----------------------------
(***************************************************************************)
(* Startup of routedns (cmd/routedns/main.go): start() builds the resolver *)
(* graph from the configuration (leaf resolvers, then groups and routers   *)
(* in dependency order), builds the listeners and supervises them.         *)
(*                                                                         *)
(* Go maps are functions whose DOMAIN is the key set; ranging over a map   *)
(* visits the keys in an arbitrary order, one key per step.  A resolver    *)
(* instance is a serial number into the allocation log insts; 0 is nil.    *)
(***************************************************************************)
EXTENDS Integers, Sequences, FiniteSets, TLC

\* Longest list of child resolvers / routes drawn for a configuration.
MaxRefs == 2

\* The ids a configuration may use, in a fixed order used to list them.
IdOrder == <<"a", "b", "c">>
Ids == {IdOrder[i] : i \in 1..Len(IdOrder)}
ListenerIds == {"l1", "l2"}

Nil == 0

-----------------------------------------------------------------------------
(* Go map helpers *)

EmptyMap == [k \in {} |-> Nil]
Has(m, k) == k \in DOMAIN m
Lookup(m, k) == IF k \in DOMAIN m THEN m[k] ELSE Nil
Put(m, k, v) == [x \in DOMAIN m \cup {k} |-> IF x = k THEN v ELSE m[x]]
Delete(m, k) == [x \in DOMAIN m \ {k} |-> m[x]]
Range(s) == {s[i] : i \in 1..Len(s)}

-----------------------------------------------------------------------------
(* Error values returned by start, instantiateGroup and instantiateRouter *)

ErrBootstrap == "failed to instantiate bootstrap-resolver"
ErrDupResolver == "group resolver with duplicate id"
ErrResolver == "failed to instantiate resolver"
ErrDupName == "duplicate name"
ErrUnresolved == "unable to resolve dependencies"
ErrGroupRef == "group references non-existant resolver or group"
ErrRouterRef == "router references non-existant resolver or group"
ErrArity == "type only supports one resolver"
ErrConflict == "static blocklist can't be used with source"
ErrDB == "blocklist db"
ErrOp == "unsupported modifier operation"
ErrCtor == "constructor"
ErrGroupType == "unsupported group type"
ErrRoute == "failure parsing routes"
ErrListenerRef == "listener references non-existant resolver, group or router"
ErrAllowedNet == "allowed-net"
ErrTLS == "tls config"
ErrListenerCtor == "listener constructor"
ErrProtocol == "unsupported protocol"

-----------------------------------------------------------------------------
(* Group kinds of instantiateGroup's switch *)

MultiTypes == {"round-robin", "fail-rotate", "fail-back", "random"}
\* kinds whose case opens with  if len(gr) != 1 { return error }
ArityCheckedTypes ==
    {"blocklist", "blocklist-v2", "replace", "ttl-modifier", "ecs-modifier",
     "edns0-modifier", "response-blocklist-ip", "response-blocklist-cidr",
     "response-blocklist-name", "client-blocklist", "response-minimize",
     "response-collapse", "rate-limiter"}
\* kinds that reject a static list combined with a source
ConflictTypes ==
    {"blocklist", "blocklist-v2", "response-blocklist-ip",
     "response-blocklist-cidr", "response-blocklist-name", "client-blocklist"}
\* kinds that build a blocklist database, which may fail
DBTypes == ConflictTypes
\* kinds with an operation switch that has a failing default
OpTypes == {"ecs-modifier", "edns0-modifier"}
\* kinds whose constructor returns an error value
CtorErrTypes ==
    {"blocklist", "blocklist-v2", "replace", "ecs-modifier", "edns0-modifier",
     "response-blocklist-ip", "response-blocklist-cidr",
     "response-blocklist-name", "client-blocklist", "static-responder"}
\* kinds that pass gr[0] to their constructor
FirstChildTypes == ArityCheckedTypes \cup {"cache"}
\* kinds that take no child
NoChildTypes == {"static-responder", "drop"}
\* kinds that pass resolvers[g.BlockListResolver]
BlocklistResolverTypes ==
    {"blocklist-v2", "response-blocklist-ip", "response-blocklist-cidr",
     "response-blocklist-name", "client-blocklist"}
AllowlistResolverTypes == {"blocklist-v2"}
LimitResolverTypes == {"rate-limiter"}
GroupTypes == MultiTypes \cup FirstChildTypes \cup NoChildTypes

ListenerProtocols == {"tcp", "udp", "admin", "dot", "dtls", "doh", "doq"}
TLSProtocols == {"admin", "dot", "dtls", "doh", "doq"}
CtorErrProtocols == {"admin", "doh"}


-----------------------------------------------------------------------------
(* The program state *)

VARIABLES
    config,          \* the loaded configuration (loadConfig's result)
    pc,              \* where start() is
    err,             \* the error start() returned, "" while none
    defaultResolver, \* net.DefaultResolver: "system" or "bootstrap"
    resolvers,       \* map id -> resolver instance (serial, Nil for nil)
    insts,           \* every resolver, group and router built, in order
    todoResolvers,   \* keys of config.Resolvers the first loop has yet to visit
    deps,            \* map id -> list of ids it depends on
    found,           \* the pass's found flag
    toVisit,         \* keys of deps the current pass has yet to visit
    listeners,       \* the listeners slice
    todoListeners,   \* keys of config.Listeners yet to visit
    spawned,         \* number of supervisor goroutines started
    sup              \* per listener index: where its supervisor goroutine is

vars == <<config, pc, err, defaultResolver, resolvers, insts, todoResolvers,
          deps, found, toVisit, listeners, todoListeners, spawned, sup>>

-----------------------------------------------------------------------------
(* instantiateGroup and instantiateRouter as functions of the resolver map *)

Outcome(status, e, res, ins) ==
    [status |-> status, err |-> e, resolvers |-> res, insts |-> ins]

NewInstance(id, kind, type, wraps, bl, al, lim) ==
    [id |-> id, kind |-> kind, type |-> type, wraps |-> wraps,
     blocklistResolver |-> bl, allowlistResolver |-> al, limitResolver |-> lim]

\* gr: the child instances looked up in the map, in declaration order
Children(g, res) == [i \in 1..Len(g.resolvers) |-> Lookup(res, g.resolvers[i])]
MissingChild(g, res) == \E i \in 1..Len(g.resolvers) : ~Has(res, g.resolvers[i])

\* instantiateGroup that stores the new group under its id before it looks
\* up the children, so that a reference to the id finds the group itself
instantiateGroup_RegistersFirst(id, g, res, ins) ==
    LET serial == Len(ins) + 1
        own == Put(res, id, serial)
        gr == Children(g, own)
        bl == IF g.type \in BlocklistResolverTypes
              THEN Lookup(own, g.blocklistResolver) ELSE Nil
        al == IF g.type \in AllowlistResolverTypes
              THEN Lookup(own, g.allowlistResolver) ELSE Nil
        lim == IF g.type \in LimitResolverTypes
               THEN Lookup(own, g.limitResolver) ELSE Nil
        built(wraps) ==
            Outcome("ok", "", Put(res, id, serial),
                    Append(ins, NewInstance(id, "group", g.type, wraps, bl, al, lim)))
        fail(e) == Outcome("error", e, res, ins)
        \* resolvers[id], err = rdns.NewX(...): nil is stored, then err returned
        failStored(e) == Outcome("error", e, Put(res, id, Nil), ins)
    IN  IF MissingChild(g, own) THEN fail(ErrGroupRef)
        ELSE IF g.type \in MultiTypes THEN built(gr)
        ELSE IF g.type \in ArityCheckedTypes THEN
            IF Len(gr) # 1 THEN fail(ErrArity)
            ELSE IF g.type \in ConflictTypes /\ g.conflict THEN fail(ErrConflict)
            ELSE IF g.type \in DBTypes /\ ~g.dbOk THEN fail(ErrDB)
            ELSE IF g.type \in OpTypes /\ ~g.opOk THEN fail(ErrOp)
            ELSE IF g.type \in CtorErrTypes /\ ~g.ctorOk THEN failStored(ErrCtor)
            ELSE built(<<gr[1]>>)
        ELSE IF g.type = "cache" THEN
            \* gr[0] with no length check: index out of range on an empty slice
            IF Len(gr) = 0 THEN Outcome("panic", "index out of range", res, ins)
            ELSE built(<<gr[1]>>)
        ELSE IF g.type = "static-responder" THEN
            IF ~g.ctorOk THEN failStored(ErrCtor) ELSE built(<<>>)
        ELSE IF g.type = "drop" THEN built(<<>>)
        ELSE fail(ErrGroupType)

instantiateGroup(id, g, res, ins) ==
    LET gr == Children(g, res)
        serial == Len(ins) + 1
        bl == IF g.type \in BlocklistResolverTypes
              THEN Lookup(res, g.blocklistResolver) ELSE Nil
        al == IF g.type \in AllowlistResolverTypes
              THEN Lookup(res, g.allowlistResolver) ELSE Nil
        lim == IF g.type \in LimitResolverTypes
               THEN Lookup(res, g.limitResolver) ELSE Nil
        built(wraps) ==
            Outcome("ok", "", Put(res, id, serial),
                    Append(ins, NewInstance(id, "group", g.type, wraps, bl, al, lim)))
        fail(e) == Outcome("error", e, res, ins)
        \* resolvers[id], err = rdns.NewX(...): nil is stored, then err returned
        failStored(e) == Outcome("error", e, Put(res, id, Nil), ins)
    IN  IF MissingChild(g, res) THEN fail(ErrGroupRef)
        ELSE IF g.type \in MultiTypes THEN built(gr)
        ELSE IF g.type \in ArityCheckedTypes THEN
            IF Len(gr) # 1 THEN fail(ErrArity)
            ELSE IF g.type \in ConflictTypes /\ g.conflict THEN fail(ErrConflict)
            ELSE IF g.type \in DBTypes /\ ~g.dbOk THEN fail(ErrDB)
            ELSE IF g.type \in OpTypes /\ ~g.opOk THEN fail(ErrOp)
            ELSE IF g.type \in CtorErrTypes /\ ~g.ctorOk THEN failStored(ErrCtor)
            ELSE built(<<gr[1]>>)
        ELSE IF g.type = "cache" THEN
            \* gr[0] with no length check: index out of range on an empty slice
            IF Len(gr) = 0 THEN Outcome("panic", "index out of range", res, ins)
            ELSE built(<<gr[1]>>)
        ELSE IF g.type = "static-responder" THEN
            IF ~g.ctorOk THEN failStored(ErrCtor) ELSE built(<<>>)
        ELSE IF g.type = "drop" THEN built(<<>>)
        ELSE fail(ErrGroupType)

\* index of the first route that makes instantiateRouter return, 0 if none
FirstBadRoute(r, res) ==
    LET bad == {i \in 1..Len(r.routes) :
                   ~Has(res, r.routes[i].resolver) \/ ~r.routes[i].ok}
    IN  IF bad = {} THEN 0 ELSE CHOOSE i \in bad : \A j \in bad : i <= j

instantiateRouter(id, r, res, ins) ==
    LET i == FirstBadRoute(r, res)
        serial == Len(ins) + 1
        targets == [k \in 1..Len(r.routes) |-> Lookup(res, r.routes[k].resolver)]
    IN  IF i # 0 THEN
            Outcome("error",
                    IF ~Has(res, r.routes[i].resolver) THEN ErrRouterRef ELSE ErrRoute,
                    res, ins)
        ELSE Outcome("ok", "", Put(res, id, serial),
                     Append(ins, NewInstance(id, "router", "router", targets, Nil, Nil, Nil)))

-----------------------------------------------------------------------------
(* The dependency map *)

OptionalRef(ref) == IF ref # "" THEN <<ref>> ELSE <<>>

\* GroupDeps without the additional resolvers
GroupDeps_ChildrenOnly(g) == g.resolvers

GroupDeps(g) ==
    g.resolvers \o OptionalRef(g.blocklistResolver)
                \o OptionalRef(g.allowlistResolver)
                \o OptionalRef(g.limitResolver)

RouterDeps(r) == [i \in 1..Len(r.routes) |-> r.routes[i].resolver]

\* deps after the loop over config.Groups
DepsOfGroups(cfg) == [id \in DOMAIN cfg.groups |-> GroupDeps(cfg.groups[id])]

\* ids the loop over config.Routers writes: deps[id] is only ever written by
\* append inside the loop over the routes
RoutersInDeps(cfg) == {id \in DOMAIN cfg.routers : Len(cfg.routers[id].routes) > 0}

DepsWithRouters(cfg, d) ==
    [id \in DOMAIN d \cup RoutersInDeps(cfg) |->
        IF id \in DOMAIN d THEN d[id] ELSE RouterDeps(cfg.routers[id])]

\* all dependencies of id exist in the map of resolvers
Ready(d, res, id) == \A i \in 1..Len(d[id]) : Has(res, d[id][i])

\* One iteration of the range over deps, on the loop's state
\* st = [status, err, resolvers, insts, deps, found]
VisitStep(cfg, st, id) ==
    IF ~Ready(st.deps, st.resolvers, id) THEN st
    ELSE
        LET o1 == IF id \in DOMAIN cfg.groups
                  THEN instantiateGroup(id, cfg.groups[id], st.resolvers, st.insts)
                  ELSE Outcome("ok", "", st.resolvers, st.insts)
            o2 == IF o1.status = "ok" /\ id \in DOMAIN cfg.routers
                  THEN instantiateRouter(id, cfg.routers[id], o1.resolvers, o1.insts)
                  ELSE o1
        IN  [status |-> o2.status, err |-> o2.err,
             resolvers |-> o2.resolvers, insts |-> o2.insts,
             deps |-> IF o2.status = "ok" THEN Delete(st.deps, id) ELSE st.deps,
             found |-> IF o2.status = "ok" THEN TRUE ELSE st.found]

-----------------------------------------------------------------------------
(* Configurations: what loadConfig can return *)

Bootstrap(address, ok) == [address |-> address, ok |-> ok]
Leaf(ok) == [ok |-> ok]
Group(type, rs, bl, al, lim, conflict, dbOk, opOk, ctorOk) ==
    [type |-> type, resolvers |-> rs, blocklistResolver |-> bl,
     allowlistResolver |-> al, limitResolver |-> lim,
     conflict |-> conflict, dbOk |-> dbOk, opOk |-> opOk, ctorOk |-> ctorOk]
PlainGroup(type, rs) == Group(type, rs, "", "", "", FALSE, TRUE, TRUE, TRUE)
Route(resolver, ok) == [resolver |-> resolver, ok |-> ok]
Router(routes) == [routes |-> routes]
ListenerCfg(protocol, resolver, allowedNetOk, tlsOk, proxyNetOk, ctorOk) ==
    [protocol |-> protocol, resolver |-> resolver, allowedNetOk |-> allowedNetOk,
     tlsOk |-> tlsOk, proxyNetOk |-> proxyNetOk, ctorOk |-> ctorOk]
Config(b, rs, gs, rts, ls) ==
    [bootstrap |-> b, resolvers |-> rs, groups |-> gs, routers |-> rts,
     listeners |-> ls]

SeqsUpTo(S, n) == UNION {[1..k -> S] : k \in 0..n}

\* lists of at most MaxRefs distinct ids, in the order of IdOrder
RefLists ==
    {SelectSeq(IdOrder, LAMBDA x : x \in s) :
        s \in {t \in SUBSET Ids : Cardinality(t) <= MaxRefs}}

Namespaces == {"resolver", "group", "router"}

\* One id's declarations: the namespaces that define it and the ids its group
\* and router definitions reference.
Decls ==
    {d \in {[kinds |-> k, refs |-> r] : k \in SUBSET Namespaces, r \in RefLists} :
        Cardinality(d.kinds \cap {"group", "router"}) # 1 => d.refs = <<>>}

\* Graph shapes: every id is defined in any subset of the three namespaces,
\* groups are round-robin, no listener.  An id that is both a group and a
\* router is rejected before its references are read: it is drawn without any.
GraphConfigs ==
    {Config(Bootstrap("", TRUE),
            [id \in {x \in Ids : "resolver" \in d[x].kinds} |-> Leaf(TRUE)],
            [id \in {x \in Ids : "group" \in d[x].kinds} |->
                PlainGroup("round-robin", d[id].refs)],
            [id \in {x \in Ids : "router" \in d[x].kinds} |->
                Router([i \in 1..Len(d[id].refs) |-> Route(d[id].refs[i], TRUE)])],
            EmptyMap)
     : d \in [Ids -> Decls]}

\* option outcomes of a group: at most one of the four goes wrong
GroupFlags ==
    {<<FALSE, TRUE, TRUE, TRUE>>, <<TRUE, TRUE, TRUE, TRUE>>,
     <<FALSE, FALSE, TRUE, TRUE>>, <<FALSE, TRUE, FALSE, TRUE>>,
     <<FALSE, TRUE, TRUE, FALSE>>}

\* Group kinds: leaf "a", sinkhole group "b" (drop), and a group "c" of any
\* kind (or an unknown one) over children and auxiliary resolvers drawn from
\* "a", "b" and the undefined "x".
KindConfigs ==
    {Config(Bootstrap("", TRUE),
            [id \in {"a"} |-> Leaf(TRUE)],
            [id \in {"b", "c"} |->
                IF id = "b" THEN PlainGroup("drop", <<>>)
                ELSE Group(t, rs, aux[1], aux[2], aux[3], f[1], f[2], f[3], f[4])],
            EmptyMap,
            [l \in {"l1"} |-> ListenerCfg("tcp", "c", TRUE, TRUE, TRUE, TRUE)])
     : t \in GroupTypes \cup {"bogus"},
       rs \in SeqsUpTo({"a", "b"}, MaxRefs),
       aux \in [1..3 -> {"", "b", "x"}],
       f \in GroupFlags}

\* Routers: leaf "a", group "b", and a router "c" whose routes target "a", "b"
\* or the undefined "x" and may fail to compile.
RouterConfigs ==
    {Config(Bootstrap("", TRUE),
            [id \in {"a"} |-> Leaf(TRUE)],
            [id \in {"b"} |-> PlainGroup("fail-back", <<"a">>)],
            [id \in {"c"} |-> Router(routes)],
            [l \in {"l1"} |-> ListenerCfg("dot", "c", TRUE, TRUE, TRUE, TRUE)])
     : routes \in SeqsUpTo({Route(r, ok) : r \in {"a", "b", "x"}, ok \in BOOLEAN},
                           MaxRefs)}

\* outcomes of a listener's option parsing and constructor: at most one fails
ListenerFlags ==
    {<<TRUE, TRUE, TRUE, TRUE>>, <<FALSE, TRUE, TRUE, TRUE>>,
     <<TRUE, FALSE, TRUE, TRUE>>, <<TRUE, TRUE, FALSE, TRUE>>,
     <<TRUE, TRUE, TRUE, FALSE>>}

ListenerChoices(flags) ==
    {ListenerCfg(p, r, f[1], f[2], f[3], f[4]) :
        p \in ListenerProtocols \cup {"bogus"},
        r \in {"", "b", "x"},
        f \in flags}

\* Listeners: a bootstrap resolver (absent, good or bad), leaf "a" (good or
\* bad), group "b" over it, and up to two listeners of any protocol, bound to
\* nothing, to "b" or to the undefined "x"; the options of "l2" are all valid.
ListenerConfigs ==
    {Config(b,
            [id \in {"a"} |-> Leaf(leafOk)],
            [id \in {"b"} |-> PlainGroup("random", <<"a">>)],
            EmptyMap,
            ls)
     : b \in {Bootstrap("", TRUE), Bootstrap("1.1.1.1:53", TRUE),
              Bootstrap("1.1.1.1:53", FALSE)},
       leafOk \in BOOLEAN,
       ls \in UNION {{l \in [L -> ListenerChoices(ListenerFlags)] :
                          "l2" \in L => l["l2"] \in ListenerChoices({<<TRUE, TRUE, TRUE, TRUE>>})}
                     : L \in SUBSET ListenerIds}}

-----------------------------------------------------------------------------
(* start() *)

InitState(cfg) ==
    /\ config = cfg
    /\ pc = "bootstrap"
    /\ err = ""
    /\ defaultResolver = "system"
    /\ resolvers = EmptyMap
    /\ insts = <<>>
    /\ todoResolvers = {}
    /\ deps = EmptyMap
    /\ found = FALSE
    /\ toVisit = {}
    /\ listeners = <<>>
    /\ todoListeners = {}
    /\ spawned = 0
    /\ sup = <<>>

Init ==
    \/ \E cfg \in GraphConfigs : InitState(cfg)
    \/ \E cfg \in KindConfigs : InitState(cfg)
    \/ \E cfg \in RouterConfigs : InitState(cfg)
    \/ \E cfg \in ListenerConfigs : InitState(cfg)

Fail(e) ==
    /\ pc' = "error"
    /\ err' = e

\* InstallBootstrap that logs a failure and carries on
InstallBootstrap_IgnoresFailure ==
    /\ pc = "bootstrap"
    /\ pc' = "resolvers"
    /\ defaultResolver' = IF config.bootstrap.address # "" /\ config.bootstrap.ok
                          THEN "bootstrap" ELSE defaultResolver
    /\ todoResolvers' = DOMAIN config.resolvers
    /\ UNCHANGED <<config, err, resolvers, insts, deps, found, toVisit, listeners,
                   todoListeners, spawned, sup>>

\* if config.BootstrapResolver.Address != "" { ... }
InstallBootstrap ==
    /\ pc = "bootstrap"
    /\ IF config.bootstrap.address = ""
       THEN /\ pc' = "resolvers"
            /\ UNCHANGED <<err, defaultResolver>>
       ELSE IF ~config.bootstrap.ok
       THEN /\ Fail(ErrBootstrap)
            /\ UNCHANGED defaultResolver
       ELSE /\ defaultResolver' = "bootstrap"
            /\ pc' = "resolvers"
            /\ UNCHANGED err
    /\ todoResolvers' = DOMAIN config.resolvers
    /\ UNCHANGED <<config, resolvers, insts, deps, found, toVisit, listeners,
                   todoListeners, spawned, sup>>

\* one iteration of  for id, r := range config.Resolvers
ParseResolver(id) ==
    /\ pc = "resolvers"
    /\ id \in todoResolvers
    /\ todoResolvers' = todoResolvers \ {id}
    /\ IF Has(resolvers, id)
       THEN /\ Fail(ErrDupResolver)
            /\ UNCHANGED <<resolvers, insts>>
       ELSE IF ~config.resolvers[id].ok
       THEN /\ Fail(ErrResolver)
            /\ resolvers' = Put(resolvers, id, Nil)
            /\ UNCHANGED insts
       ELSE /\ resolvers' = Put(resolvers, id, Len(insts) + 1)
            /\ insts' = Append(insts, NewInstance(id, "resolver", "resolver", <<>>,
                                                  Nil, Nil, Nil))
            /\ UNCHANGED <<pc, err>>
    /\ UNCHANGED <<config, defaultResolver, deps, found, toVisit, listeners,
                   todoListeners, spawned, sup>>

\* for id, g := range config.Groups: the keys of a map are distinct, so the
\* duplicate test of this loop finds nothing and every group gets an entry
BuildGroupDeps ==
    /\ pc = "resolvers"
    /\ todoResolvers = {}
    /\ deps' = DepsOfGroups(config)
    /\ pc' = "routerdeps"
    /\ UNCHANGED <<config, err, defaultResolver, resolvers, insts, todoResolvers,
                   found, toVisit, listeners, todoListeners, spawned, sup>>

\* for id, r := range config.Routers
BuildRouterDeps ==
    /\ pc = "routerdeps"
    /\ IF \E id \in DOMAIN config.routers : Has(deps, id)
       THEN /\ Fail(ErrDupName)
            /\ UNCHANGED deps
       ELSE /\ deps' = DepsWithRouters(config, deps)
            /\ pc' = "loop"
            /\ UNCHANGED err
    /\ UNCHANGED <<config, defaultResolver, resolvers, insts, todoResolvers,
                   found, toVisit, listeners, todoListeners, spawned, sup>>

\* for len(deps) > 0 { found := false; ...
LoopHead ==
    /\ pc = "loop"
    /\ IF DOMAIN deps = {}
       THEN /\ pc' = "listeners"
            /\ todoListeners' = DOMAIN config.listeners
            /\ UNCHANGED <<found, toVisit>>
       ELSE /\ pc' = "pass"
            /\ found' = FALSE
            /\ toVisit' = DOMAIN deps
            /\ UNCHANGED todoListeners
    /\ UNCHANGED <<config, err, defaultResolver, resolvers, insts, todoResolvers,
                   deps, listeners, spawned, sup>>

\* one iteration of  for id, dependencies := range deps
VisitNode(id) ==
    /\ pc = "pass"
    /\ id \in toVisit
    /\ toVisit' = toVisit \ {id}
    /\ LET st == VisitStep(config,
                           [status |-> "ok", err |-> "", resolvers |-> resolvers,
                            insts |-> insts, deps |-> deps, found |-> found],
                           id)
       IN  /\ resolvers' = st.resolvers
           /\ insts' = st.insts
           /\ deps' = st.deps
           /\ found' = st.found
           /\ IF st.status = "ok"
              THEN UNCHANGED <<pc, err>>
              ELSE /\ pc' = st.status
                   /\ err' = st.err
    /\ UNCHANGED <<config, defaultResolver, todoResolvers, listeners,
                   todoListeners, spawned, sup>>

\* if !found { return errors.New("unable to resolve dependencies") }
PassEnd ==
    /\ pc = "pass"
    /\ toVisit = {}
    /\ IF ~found
       THEN Fail(ErrUnresolved)
       ELSE /\ pc' = "loop"
            /\ UNCHANGED err
    /\ UNCHANGED <<config, defaultResolver, resolvers, insts, todoResolvers,
                   deps, found, toVisit, listeners, todoListeners, spawned, sup>>

NewListener(id, protocol, resolver) ==
    [id |-> id, protocol |-> protocol, resolver |-> resolver]

\* ListenerError without the test of the listener's resolver reference
ListenerError_NoRefCheck(l, ok) ==
    IF ~l.allowedNetOk THEN ErrAllowedNet
    ELSE IF l.protocol \notin ListenerProtocols THEN ErrProtocol
    ELSE IF l.protocol \in TLSProtocols /\ ~l.tlsOk THEN ErrTLS
    ELSE IF l.protocol = "doh" /\ ~l.proxyNetOk THEN ErrListenerCtor
    ELSE IF l.protocol \in CtorErrProtocols /\ ~l.ctorOk THEN ErrListenerCtor
    ELSE ""

\* The error one iteration of the listener loop returns for listener
\* definition l, "" if it constructs the listener; ok: resolvers[l.Resolver]
\* exists.
ListenerError(l, ok) ==
    IF ~ok /\ l.protocol # "admin" THEN ErrListenerRef
    ELSE IF ~l.allowedNetOk THEN ErrAllowedNet
    ELSE IF l.protocol \notin ListenerProtocols THEN ErrProtocol
    ELSE IF l.protocol \in TLSProtocols /\ ~l.tlsOk THEN ErrTLS
    ELSE IF l.protocol = "doh" /\ ~l.proxyNetOk THEN ErrListenerCtor
    ELSE IF l.protocol \in CtorErrProtocols /\ ~l.ctorOk THEN ErrListenerCtor
    ELSE ""

\* one iteration of  for id, l := range config.Listeners
BuildListener(id) ==
    /\ pc = "listeners"
    /\ id \in todoListeners
    /\ todoListeners' = todoListeners \ {id}
    /\ LET l == config.listeners[id]
           ok == Has(resolvers, l.resolver)
           resolver == Lookup(resolvers, l.resolver)
           e == ListenerError(l, ok)
       IN  IF e # ""
           THEN /\ Fail(e)
                /\ UNCHANGED listeners
           ELSE \* NewAdminListener takes no resolver
                /\ listeners' = Append(listeners,
                       NewListener(id, l.protocol,
                                   IF l.protocol = "admin" THEN Nil ELSE resolver))
                /\ UNCHANGED <<pc, err>>
    /\ UNCHANGED <<config, defaultResolver, resolvers, insts, todoResolvers,
                   deps, found, toVisit, spawned, sup>>

\* SpawnSupervisor moved into the loop that builds the listeners
SpawnSupervisor_Early ==
    /\ pc = "listeners"
    /\ spawned < Len(listeners)
    /\ spawned' = spawned + 1
    /\ sup' = Append(sup, "idle")
    /\ UNCHANGED <<config, pc, err, defaultResolver, resolvers, insts,
                   todoResolvers, deps, found, toVisit, listeners, todoListeners>>

\* one iteration of  for _, l := range listeners { go func(l) {...}(l) }
SpawnSupervisor ==
    /\ pc = "listeners"
    /\ todoListeners = {}
    /\ spawned < Len(listeners)
    /\ spawned' = spawned + 1
    /\ sup' = Append(sup, "idle")
    /\ UNCHANGED <<config, pc, err, defaultResolver, resolvers, insts,
                   todoResolvers, deps, found, toVisit, listeners, todoListeners>>

\* select {}
Block ==
    /\ pc = "listeners"
    /\ todoListeners = {}
    /\ spawned = Len(listeners)
    /\ pc' = "serving"
    /\ UNCHANGED <<config, err, defaultResolver, resolvers, insts, todoResolvers,
                   deps, found, toVisit, listeners, todoListeners, spawned, sup>>

-----------------------------------------------------------------------------
(* The supervisor goroutine of listener i:  for { err := l.Start(); log; sleep } *)

supUnchanged ==
    UNCHANGED <<config, pc, err, defaultResolver, resolvers, insts, todoResolvers,
                deps, found, toVisit, listeners, todoListeners, spawned>>

\* err := l.Start(): the listener is serving until Start returns
ListenerStart(i) ==
    /\ i \in 1..Len(sup)
    /\ sup[i] = "idle"
    /\ sup' = [sup EXCEPT ![i] = "started"]
    /\ supUnchanged

\* l.Start() returns; the error is logged
ListenerFailed(i) ==
    /\ i \in 1..Len(sup)
    /\ sup[i] = "started"
    /\ sup' = [sup EXCEPT ![i] = "failed"]
    /\ supUnchanged

\* Backoff of a supervisor with no loop: the goroutine ends
Backoff_Once(i) ==
    /\ i \in 1..Len(sup)
    /\ sup[i] = "failed"
    /\ sup' = [sup EXCEPT ![i] = "exited"]
    /\ supUnchanged

\* time.Sleep(time.Second) is over; the for loop goes round
Backoff(i) ==
    /\ i \in 1..Len(sup)
    /\ sup[i] = "failed"
    /\ sup' = [sup EXCEPT ![i] = "idle"]
    /\ supUnchanged

ListenerIndexes == 1..Cardinality(ListenerIds)

Next ==
    \/ InstallBootstrap
    \/ \E id \in Ids : ParseResolver(id)
    \/ BuildGroupDeps
    \/ BuildRouterDeps
    \/ LoopHead
    \/ \E id \in Ids : VisitNode(id)
    \/ PassEnd
    \/ \E id \in ListenerIds : BuildListener(id)
    \/ SpawnSupervisor
    \/ Block
    \/ \E i \in ListenerIndexes : ListenerStart(i)
    \/ \E i \in ListenerIndexes : ListenerFailed(i)
    \/ \E i \in ListenerIndexes : Backoff(i)

Spec == Init /\ [][Next]_vars

\* Supervision: the configurations of ListenerConfigs whose resolvers and
\* listener options are valid.
SupervisionConfigs ==
    {cfg \in ListenerConfigs :
        /\ cfg.bootstrap.ok
        /\ cfg.resolvers["a"].ok
        /\ \A l \in DOMAIN cfg.listeners :
              LET c == cfg.listeners[l]
              IN  c.allowedNetOk /\ c.tlsOk /\ c.proxyNetOk /\ c.ctorOk}

InitSupervision == \E cfg \in SupervisionConfigs : InitState(cfg)

\* the steps of the goroutine that runs start()
StartStep ==
    \/ InstallBootstrap
    \/ \E id \in Ids : ParseResolver(id)
    \/ BuildGroupDeps
    \/ BuildRouterDeps
    \/ LoopHead
    \/ \E id \in Ids : VisitNode(id)
    \/ PassEnd
    \/ \E id \in ListenerIds : BuildListener(id)
    \/ SpawnSupervisor
    \/ Block

\* The Go scheduler runs every runnable goroutine: start() goes on, and a
\* supervisor calls Start and wakes from its sleep.  When a listener's Start
\* returns is up to the listener: no fairness on ListenerFailed.
Fairness ==
    /\ WF_vars(StartStep)
    /\ \A i \in ListenerIndexes : WF_vars(ListenerStart(i)) /\ WF_vars(Backoff(i))

FairSpec == InitSupervision /\ [][Next]_vars /\ Fairness

-----------------------------------------------------------------------------
(* Properties of a configuration, read off the configuration alone *)

LeafIds(cfg) == DOMAIN cfg.resolvers
CompositeIds(cfg) == DOMAIN cfg.groups \cup DOMAIN cfg.routers
DefinedIds(cfg) == LeafIds(cfg) \cup CompositeIds(cfg)

\* ids defined in two of the three namespaces
DuplicateIds(cfg) ==
    (DOMAIN cfg.resolvers \cap DOMAIN cfg.groups)
    \cup (DOMAIN cfg.resolvers \cap DOMAIN cfg.routers)
    \cup (DOMAIN cfg.groups \cap DOMAIN cfg.routers)

\* the ids a group definition references: children and auxiliary resolvers
GroupRefs(g) ==
    Range(g.resolvers)
    \cup ({g.blocklistResolver, g.allowlistResolver, g.limitResolver} \ {""})

\* the ids a router definition references: every route's target
RouterRefs(r) == {r.routes[i].resolver : i \in 1..Len(r.routes)}

\* the ids the group and router definitions of id reference
RefsOf(cfg, id) ==
    (IF id \in DOMAIN cfg.groups THEN GroupRefs(cfg.groups[id]) ELSE {})
    \cup (IF id \in DOMAIN cfg.routers THEN RouterRefs(cfg.routers[id]) ELSE {})

\* some group or router references an id defined nowhere
Dangling(cfg) ==
    \E id \in CompositeIds(cfg) : RefsOf(cfg, id) \ DefinedIds(cfg) # {}

RECURSIVE ReachableFrom(_, _, _)
\* the groups and routers reachable from the ids in S by at most n references
ReachableFrom(cfg, S, n) ==
    IF n = 0 THEN S
    ELSE ReachableFrom(cfg,
             S \cup UNION {RefsOf(cfg, id) \cap CompositeIds(cfg) : id \in S},
             n - 1)

\* some group or router references itself, directly or through others
Cyclic(cfg) ==
    \E id \in CompositeIds(cfg) :
        id \in ReachableFrom(cfg, RefsOf(cfg, id) \cap CompositeIds(cfg),
                             Cardinality(CompositeIds(cfg)))

Returned == pc \in {"error", "panic"}
PastLoop == pc \in {"listeners", "serving"}
InLoop == pc \in {"loop", "pass"}

-----------------------------------------------------------------------------
(* C1 *)

\* C1: an id defined in two of the namespaces resolvers, groups, routers makes
\* start return a configuration error before the fixed-point loop begins, and
\* no entry of the id -> Resolver map is overwritten: no two instances were
\* ever stored under one id.
C1_DuplicateIdsRejected ==
    /\ DuplicateIds(config) # {} => ~InLoop /\ ~PastLoop
    /\ \A i, j \in 1..Len(insts) : i # j => insts[i].id # insts[j].id

-----------------------------------------------------------------------------
(* C2 *)

\* C2: a configuration in which groups or routers reference each other in a
\* cycle (a self-reference included), or in which one references an id
\* defined nowhere, fails to start: start never gets past the fixed-point
\* loop.
C2_CycleOrDanglingFails ==
    Cyclic(config) \/ Dangling(config) => ~PastLoop

-----------------------------------------------------------------------------
(* C3 *)

\* every constructor the configuration calls for succeeds: leaf resolvers,
\* groups of a known kind with the children and options the kind accepts,
\* routes that compile
ConstructorsSucceed(cfg) ==
    /\ cfg.bootstrap.ok
    /\ \A id \in DOMAIN cfg.resolvers : cfg.resolvers[id].ok
    /\ \A id \in DOMAIN cfg.groups :
        LET g == cfg.groups[id]
        IN  /\ g.type \in GroupTypes
            /\ g.type \in FirstChildTypes => Len(g.resolvers) = 1
            /\ ~g.conflict /\ g.dbOk /\ g.opOk /\ g.ctorOk
    /\ \A id \in DOMAIN cfg.routers :
        \A i \in 1..Len(cfg.routers[id].routes) : cfg.routers[id].routes[i].ok

\* unique ids, references all defined and acyclic, constructors succeed
WellFormed(cfg) ==
    /\ DuplicateIds(cfg) = {}
    /\ ~Dangling(cfg)
    /\ ~Cyclic(cfg)
    /\ ConstructorsSucceed(cfg)

\* C3: for a configuration with unique ids, defined and acyclic references
\* and succeeding constructors, the fixed-point loop does not end in an
\* error (an error of start is one of the listener loop), and once it has
\* ended the dependency map is empty and every configured resolver, group
\* and router id is in the id -> Resolver map.
C3_WellFormedAssembles ==
    WellFormed(config) =>
        /\ pc # "panic"
        /\ pc = "error" => err \in {ErrListenerRef, ErrAllowedNet, ErrProtocol,
                                    ErrTLS, ErrListenerCtor}
        /\ PastLoop =>
            /\ DOMAIN deps = {}
            /\ \A id \in DefinedIds(config) :
                  Has(resolvers, id) /\ resolvers[id] # Nil

-----------------------------------------------------------------------------
(* C7 *)

\* the unary stage kinds
UnaryKinds ==
    {"cache", "ttl-modifier", "ecs-modifier", "edns0-modifier", "replace",
     "response-minimize", "response-collapse", "rate-limiter", "blocklist",
     "blocklist-v2", "response-blocklist-ip", "response-blocklist-name",
     "client-blocklist"}

\* C7: a group of a unary kind whose number of child resolvers is not exactly
\* one is never instantiated (no instance of it exists, so no children are
\* silently ignored) and never crashes the assembler.
C7_UnaryArityEnforced ==
    /\ pc # "panic"
    /\ \A k \in 1..Len(insts) :
          insts[k].kind = "group" /\ insts[k].type \in UnaryKinds
              => Len(config.groups[insts[k].id].resolvers) = 1

-----------------------------------------------------------------------------
(* C10 *)

\* The run of start() that ranges over every map in the order of IdOrder.

OrderedKeys(m) == SelectSeq(IdOrder, LAMBDA x : x \in DOMAIN m)

RECURSIVE RunPass(_, _, _, _)
\* the pass over the ids of order, from the i-th on
RunPass(cfg, st, order, i) ==
    IF i > Len(order) \/ st.status # "ok" THEN st
    ELSE RunPass(cfg, VisitStep(cfg, st, order[i]), order, i + 1)

RECURSIVE RunLoop(_, _)
RunLoop(cfg, st) ==
    IF DOMAIN st.deps = {} \/ st.status # "ok" THEN st
    ELSE LET after == RunPass(cfg, [st EXCEPT !.found = FALSE],
                              OrderedKeys(st.deps), 1)
         IN  IF after.status # "ok" THEN after
             ELSE IF ~after.found
             THEN [after EXCEPT !.status = "error", !.err = ErrUnresolved]
             ELSE RunLoop(cfg, after)

\* the loop's result in that run, for a configuration whose leaf resolvers
\* are all built and whose dependency map is built
OrderedRun(cfg) ==
    LET leaves == OrderedKeys(cfg.resolvers)
    IN  RunLoop(cfg,
            [status |-> "ok", err |-> "",
             resolvers |-> [id \in DOMAIN cfg.resolvers |->
                               CHOOSE i \in 1..Len(leaves) : leaves[i] = id],
             insts |-> [i \in 1..Len(leaves) |->
                           NewInstance(leaves[i], "resolver", "resolver", <<>>,
                                       Nil, Nil, Nil)],
             deps |-> DepsWithRouters(cfg, DepsOfGroups(cfg)),
             found |-> FALSE])

\* an instance by id and kind
Named(ins, k) == IF k = Nil THEN <<>> ELSE <<ins[k].id, ins[k].kind>>

\* for every id of the map: the kind of its resolver and the resolvers it wraps
Graph(res, ins) ==
    [id \in DOMAIN res |->
        LET n == ins[res[id]]
        IN  [kind |-> n.kind, type |-> n.type,
             wraps |-> [j \in 1..Len(n.wraps) |-> Named(ins, n.wraps[j])],
             blocklistResolver |-> Named(ins, n.blocklistResolver),
             allowlistResolver |-> Named(ins, n.allowlistResolver),
             limitResolver |-> Named(ins, n.limitResolver)]]

\* C10: whatever order the pending ids are visited in, the run agrees with
\* the run that visits them in the order of IdOrder: on whether the loop
\* succeeds or fails with "unable to resolve dependencies", and on success
\* on which resolvers (by id and kind) every id's resolver wraps.
C10_OrderIndependent ==
    /\ PastLoop =>
          /\ OrderedRun(config).status = "ok"
          /\ Graph(resolvers, insts)
                = Graph(OrderedRun(config).resolvers, OrderedRun(config).insts)
    /\ pc = "error" /\ err = ErrUnresolved =>
          /\ OrderedRun(config).status = "error"
          /\ OrderedRun(config).err = ErrUnresolved

-----------------------------------------------------------------------------
(* C4 *)

\* a listener definition that may not be constructed: its protocol is
\* unsupported, or it is not "admin" and its resolver id is not in the map
BadListener(c) ==
    \/ c.protocol \notin ListenerProtocols
    \/ c.protocol # "admin" /\ ~Has(resolvers, c.resolver)

\* C4: every constructed listener has a supported protocol and, unless it is
\* an "admin" listener, is bound to the resolver its definition names, which
\* is in the id -> Resolver map; only an "admin" listener is constructed
\* without a resolver; and once the listener loop has visited a listener
\* whose protocol is unsupported or whose reference (empty or not) is not in
\* the map, start has returned an error.
C4_ListenersBound ==
    /\ \A k \in 1..Len(listeners) :
          LET l == listeners[k]
              c == config.listeners[l.id]
          IN  /\ ~BadListener(c)
              /\ c.protocol # "admin" =>
                    l.resolver = resolvers[c.resolver] /\ l.resolver # Nil
              /\ l.resolver = Nil => c.protocol = "admin"
    /\ PastLoop =>
          \A id \in DOMAIN config.listeners \ todoListeners :
              ~BadListener(config.listeners[id])
    /\ pc = "serving" => Len(listeners) = Cardinality(DOMAIN config.listeners)

\* start returned the bad-reference error for one listener after it had
\* constructed an admin listener that names no resolver of the map
C4_Witness ==
    /\ pc = "error"
    /\ err = ErrListenerRef
    /\ \E k \in 1..Len(listeners) :
          /\ listeners[k].protocol = "admin"
          /\ listeners[k].resolver = Nil
          /\ ~Has(resolvers, config.listeners[listeners[k].id].resolver)

-----------------------------------------------------------------------------
(* C5 *)

-----------------------------------------------------------------------------
(* C6 *)

Supervised(i) == i \in 1..Len(sup)

\* C6: under the scheduler's fairness, whenever the Start of listener i has
\* returned, the Start of listener i is called again; the step in which one
\* listener's Start returns changes no other supervisor and not start();
\* a supervisor that is about to call Start can always do so, whatever the
\* other listeners do; and once start() blocks the process never exits.
C6_Supervision ==
    /\ \A i \in ListenerIndexes :
          (Supervised(i) /\ sup[i] = "failed") ~> (Supervised(i) /\ sup[i] = "started")
    /\ [][\A i \in ListenerIndexes :
            Supervised(i) /\ sup[i] = "started" /\ sup'[i] # "started" =>
                /\ pc' = pc
                /\ Len(sup') = Len(sup)
                /\ \A j \in 1..Len(sup) : j # i => sup'[j] = sup[j]]_vars
    /\ [](\A i \in ListenerIndexes :
            Supervised(i) /\ sup[i] = "idle" => ENABLED ListenerStart(i))
    /\ [][pc = "serving" => pc' = "serving"]_vars
    /\ [](Len(sup) > 0 => ~Returned)

\* one listener's Start has returned while another listener is serving
C6_Witness ==
    /\ pc = "serving"
    /\ \E i, j \in 1..Len(sup) : i # j /\ sup[i] = "failed" /\ sup[j] = "started"

-----------------------------------------------------------------------------
(* C8 *)

-----------------------------------------------------------------------------
(* C9 *)

\* C9: neither instantiateGroup nor instantiateRouter returns its
\* "references non-existant resolver" error, and every group or router that
\* was instantiated found every id it references (children, non-empty
\* blocklist-, allowlist- and limit-resolver, every route's target) built
\* before it: the instances it wraps, and the auxiliary resolvers its
\* constructor was given, are instances built earlier, none of them nil.
C9_DependenciesReady ==
    /\ err \notin {ErrGroupRef, ErrRouterRef}
    /\ \A k \in 1..Len(insts) :
          LET n == insts[k]
              earlier == {insts[j].id : j \in 1..(k - 1)}
          IN  /\ n.kind = "router" =>
                    /\ RouterRefs(config.routers[n.id]) \subseteq earlier
                    /\ Len(n.wraps) = Len(config.routers[n.id].routes)
              /\ n.kind = "group" =>
                    LET g == config.groups[n.id]
                    IN  /\ GroupRefs(g) \subseteq earlier
                        /\ g.blocklistResolver # "" /\ n.type \in BlocklistResolverTypes
                              => n.blocklistResolver \in 1..(k - 1)
                        /\ g.allowlistResolver # "" /\ n.type \in AllowlistResolverTypes
                              => n.allowlistResolver \in 1..(k - 1)
                        /\ g.limitResolver # "" /\ n.type \in LimitResolverTypes
                              => n.limitResolver \in 1..(k - 1)
              /\ \A j \in 1..Len(n.wraps) : n.wraps[j] \in 1..(k - 1)

\* a rate-limiter was built with a limit-resolver that is itself a group
C9_Witness ==
    \E k \in 1..Len(insts) :
        /\ insts[k].type = "rate-limiter"
        /\ insts[k].limitResolver # Nil
        /\ insts[insts[k].limitResolver].kind = "group"

-----------------------------------------------------------------------------
(* C11 *)

\* the instances a stage holds: its children and its auxiliary resolvers
Wrapped(n) ==
    Range(n.wraps)
    \cup ({n.blocklistResolver, n.allowlistResolver, n.limitResolver} \ {Nil})

RECURSIVE WrappedWithin(_, _, _)
\* the instances reached from those of S along at most n "wraps" edges
WrappedWithin(ins, S, n) ==
    IF n = 0 THEN S
    ELSE WrappedWithin(ins, S \cup UNION {Wrapped(ins[k]) : k \in S}, n - 1)

\* C11: in every state, for any configuration, every instantiated group or
\* router wraps only instances that were built, and so stored in the
\* id -> Resolver map, strictly before it; hence no instance reaches itself
\* along the "stage wraps child" relation.
C11_AssembledGraphAcyclic ==
    /\ \A k \in 1..Len(insts) : Wrapped(insts[k]) \subseteq 1..(k - 1)
    /\ \A k \in 1..Len(insts) :
          k \notin WrappedWithin(insts, Wrapped(insts[k]), Len(insts))

\* a group or router whose definition references its own id was instantiated
\* and wraps an instance
C11_Witness ==
    \E k \in 1..Len(insts) :
        /\ insts[k].kind # "resolver"
        /\ insts[k].id \in RefsOf(config, insts[k].id)
        /\ Wrapped(insts[k]) # {}

=============================================================================
